---- MODULE Spec2Model ----
(***************************************************************************)
(* The book-record persistence and mutation layer of the library catalog   *)
(* (lib/actions/bookActions.ts, types/book.ts): a JSON file read wholesale *)
(* and rewritten wholesale by every mutation.                              *)
(*                                                                         *)
(* Every exported function is an async function that suspends at its file  *)
(* read and at its file write.  A call is modelled by the step in which    *)
(* its read completes (the synchronous code up to the next await runs in   *)
(* the same step) and, when it reached writeBooksToFile, by the step in    *)
(* which its write completes.  Between the two steps other callers run.    *)
(***************************************************************************)
EXTENDS Integers, Sequences, FiniteSets, TLC

VARIABLES
    file,     \* the "books" array of app/data/books.json, as serialized
    now,      \* the clock read by new Date(), in ticks
    pc,       \* per caller: idle, or suspended in writeBooksToFile
    ev,       \* what the last step delivered: a return, a throw, or nothing
    calls,    \* number of calls started so far
    toggles,  \* history: per id, completed check-out/check-in writes since
              \* the record with that id was written by addBook
    adds      \* history: number of addBook calls that returned

vars == <<file, now, pc, ev, calls, toggles, adds>>

---------------------------------------------------------------------------
(* Bounds of the model *)

MaxCalls == 3      \* calls per behaviour
MaxNow == 2        \* last clock tick

(* A day has TicksPerDay clock ticks; toISOString().split("T")[0] keeps    *)
(* the day and drops the rest.                                             *)
TicksPerDay == 2

Callers == {"c1", "c2"}

---------------------------------------------------------------------------
(* Values *)

\* JavaScript undefined: an absent optional field, a void result, a failed find
Undefined == [undefined |-> TRUE]

BookCondition == {"EXCELLENT", "GOOD", "FAIR", "POOR", "DESTROYED"}

\* AddBookData values the callers pass
Dune == [title |-> "Dune", author |-> "Herbert", isbn |-> "978-0",
         publishedYear |-> 1965, genre |-> "SciFi", description |-> "...",
         condition |-> "GOOD"]
Emma == [title |-> "Emma", author |-> "Austen", isbn |-> "978-1",
         publishedYear |-> 1815, genre |-> "Novel", description |-> "",
         condition |-> "FAIR"]
DataInputs == {Dune, Emma}
IdInputs == {"1", "2"}
CondInputs == {"POOR"}

DataFields == {"title", "author", "isbn", "publishedYear", "genre",
               "description", "condition"}

Digits == <<"0", "1", "2", "3", "4", "5", "6", "7", "8", "9">>

\* Number.prototype.toString(): the decimal numeral of n
RECURSIVE toString(_)
toString(n) ==
    IF n < 10 THEN Digits[n + 1]
    ELSE toString(n \div 10) \o Digits[(n % 10) + 1]

\* A Date object holding the time t
Date(t) == [time |-> t]

\* Variant: the day in local time, in a zone behind UTC
toLocalDate(d) == (d.time - 1) \div TicksPerDay

\* date.toISOString().split("T")[0]: the UTC day of the Date, "YYYY-MM-DD"
\* (a day string is modelled by its day number)
toISODate(d) == d.time \div TicksPerDay

\* Variant: midnight local time, in a zone ahead of UTC
parseLocalDate(s) == Date(s * TicksPerDay - 1)

\* new Date("YYYY-MM-DD"): midnight UTC of that day
parseDate(s) == Date(s * TicksPerDay)

---------------------------------------------------------------------------
(* The collection store *)

\* One element of books.map(...) in readBooksFromFile
reviveBook(j) ==
    [k \in DOMAIN j \cup {"lastCheckedOutDate"} |->
        IF k = "addedDate" THEN parseDate(j.addedDate)
        ELSE IF k = "lastCheckedOutDate"
             THEN IF k \in DOMAIN j THEN parseDate(j[k]) ELSE Undefined
        ELSE j[k]]

\* Variant: a failed read is retried and the retry succeeds
readBooksFromFileRetried(f, readOk) ==
    [threw |-> FALSE, books |-> [i \in 1..Len(f) |-> reviveBook(f[i])]]

\* Variant: the catch block throws instead of returning []
readBooksFromFileRethrown(f, readOk) ==
    IF readOk
    THEN [threw |-> FALSE, books |-> [i \in 1..Len(f) |-> reviveBook(f[i])]]
    ELSE [threw |-> TRUE, error |-> [message |-> "Couldn't read books"],
          books |-> <<>>]

\* readOk is the outcome of fs.readFile and JSON.parse
readBooksFromFile(f, readOk) ==
    IF readOk
    THEN [threw |-> FALSE, books |-> [i \in 1..Len(f) |-> reviveBook(f[i])]]
    ELSE [threw |-> FALSE, books |-> <<>>]

\* book.k: reading a property the object does not have gives undefined
prop(b, k) == IF k \in DOMAIN b THEN b[k] ELSE Undefined

\* One element of books.map(...) in writeBooksToFile, after JSON.stringify,
\* which omits the properties whose value is undefined
serializeBook(b) ==
    [k \in DOMAIN b \ (IF prop(b, "lastCheckedOutDate") = Undefined
                       THEN {"lastCheckedOutDate"} ELSE {}) |->
        IF k \in {"addedDate", "lastCheckedOutDate"}
        THEN toISODate(b[k]) ELSE b[k]]

\* Variant: the write does not truncate: records of f beyond the new array
\* stay in the file
writeBooksToFileOver(books, writeOk, f) ==
    IF writeOk
    THEN [threw |-> FALSE,
          file |-> [i \in 1..Len(books) |-> serializeBook(books[i])]
                   \o SubSeq(f, Len(books) + 1, Len(f))]
    ELSE [threw |-> TRUE, error |-> [message |-> "Failed to save books"],
          file |-> f]

\* Variant: the catch block only logs
writeBooksToFileAbsorbed(books, writeOk, f) ==
    IF writeOk
    THEN [threw |-> FALSE,
          file |-> [i \in 1..Len(books) |-> serializeBook(books[i])]]
    ELSE [threw |-> FALSE, file |-> f]

\* writeOk is the outcome of fs.writeFile; f is the file before the call
writeBooksToFile(books, writeOk, f) ==
    IF writeOk
    THEN [threw |-> FALSE,
          file |-> [i \in 1..Len(books) |-> serializeBook(books[i])]]
    ELSE [threw |-> TRUE, error |-> [message |-> "Failed to save books"],
          file |-> f]

\* What a successful load of the file f returns
loadAll(f) == readBooksFromFile(f, TRUE).books

---------------------------------------------------------------------------
(* Array helpers *)

\* books.findIndex((b) => b.id === id), 1-based; 0 stands for -1
findIndex(books, id) ==
    IF \E i \in 1..Len(books) : books[i].id = id
    THEN CHOOSE i \in 1..Len(books) :
            /\ books[i].id = id
            /\ \A j \in 1..(i - 1) : books[j].id # id
    ELSE 0

\* Variant: the lookup skips removed books
findActive(books, id) ==
    IF \E i \in 1..Len(books) : books[i].id = id /\ books[i].isActive
    THEN books[CHOOSE i \in 1..Len(books) :
                  /\ books[i].id = id /\ books[i].isActive
                  /\ \A j \in 1..(i - 1) :
                        ~(books[j].id = id /\ books[j].isActive)]
    ELSE Undefined

\* books.find((b) => b.id === id)
find(books, id) ==
    IF findIndex(books, id) = 0 THEN Undefined ELSE books[findIndex(books, id)]

IsActive(b) == b.isActive

\* Variant: the listing filters on the checkout flag
filterAvailable(books) ==
    LET Available(b) == ~b.isCheckedOut
    IN SelectSeq(books, Available)

\* books.filter((book) => book.isActive)
filterActive(books) == SelectSeq(books, IsActive)

---------------------------------------------------------------------------
(* The bodies of the mutations: what each does to the array it loaded.     *)
(* write tells whether the function goes on to writeBooksToFile.           *)

\* Variant: the id counts the active books only
AddedCountingActive(books, data, t) ==
    LET newBook == [k \in {"id", "isCheckedOut", "isActive", "addedDate"}
                          \cup DOMAIN data |->
                       IF k = "id" THEN toString(Len(filterActive(books)) + 1)
                       ELSE IF k = "isCheckedOut" THEN FALSE
                       ELSE IF k = "isActive" THEN TRUE
                       ELSE IF k = "addedDate" THEN Date(t)
                       ELSE data[k]]
    IN [write |-> TRUE, books |-> Append(books, newBook)]

\* addBook: newBook and books.push(newBook); t is new Date()
Added(books, data, t) ==
    LET newBook == [k \in {"id", "isCheckedOut", "isActive", "addedDate"}
                          \cup DOMAIN data |->
                       IF k = "id" THEN toString(Len(books) + 1)
                       ELSE IF k = "isCheckedOut" THEN FALSE
                       ELSE IF k = "isActive" THEN TRUE
                       ELSE IF k = "addedDate" THEN Date(t)
                       ELSE data[k]]
    IN [write |-> TRUE, books |-> Append(books, newBook)]

\* Variant: { ...data, id, isCheckedOut, isActive, addedDate }, without the
\* book's other properties
UpdatedFromData(books, bookId, data) ==
    LET i == findIndex(books, bookId)
        kept == {"id", "isCheckedOut", "isActive", "addedDate"}
    IN IF i # 0
       THEN [write |-> TRUE,
             books |-> [books EXCEPT ![i] =
                 [k \in DOMAIN data \cup kept |->
                     IF k \in kept THEN books[i][k] ELSE data[k]]]]
       ELSE [write |-> FALSE, books |-> books]

\* updateBook: { ...book, ...data, id, isCheckedOut, isActive, addedDate,
\* lastCheckedOutDate } in place of the book found
Updated(books, bookId, data) ==
    LET i == findIndex(books, bookId)
        kept == {"id", "isCheckedOut", "isActive", "addedDate",
                 "lastCheckedOutDate"}
    IN IF i # 0
       THEN [write |-> TRUE,
             books |-> [books EXCEPT ![i] =
                 [k \in DOMAIN books[i] \cup DOMAIN data \cup kept |->
                     IF k \in kept THEN prop(books[i], k)
                     ELSE IF k \in DOMAIN data THEN data[k]
                     ELSE books[i][k]]]]
       ELSE [write |-> FALSE, books |-> books]

\* Variant: check-in does not clear lastCheckedOutDate
ToggledKeepingDate(books, bookId, t) ==
    LET i == findIndex(books, bookId)
    IN IF i # 0
       THEN [write |-> TRUE,
             books |-> [books EXCEPT ![i] =
                 [k \in DOMAIN books[i] \cup {"lastCheckedOutDate"} |->
                     IF k = "isCheckedOut" THEN ~books[i].isCheckedOut
                     ELSE IF k = "lastCheckedOutDate"
                          THEN IF ~books[i].isCheckedOut
                               THEN Date(t) ELSE prop(books[i], k)
                     ELSE books[i][k]]]]
       ELSE [write |-> FALSE, books |-> books]

\* Variant: the date is set on check-in and cleared on check-out
ToggledDatingCheckIn(books, bookId, t) ==
    LET i == findIndex(books, bookId)
    IN IF i # 0
       THEN [write |-> TRUE,
             books |-> [books EXCEPT ![i] =
                 [k \in DOMAIN books[i] \cup {"lastCheckedOutDate"} |->
                     IF k = "isCheckedOut" THEN ~books[i].isCheckedOut
                     ELSE IF k = "lastCheckedOutDate"
                          THEN IF ~books[i].isCheckedOut
                               THEN Undefined ELSE Date(t)
                     ELSE books[i][k]]]]
       ELSE [write |-> FALSE, books |-> books]

\* toggleCheckoutStatus; t is new Date()
Toggled(books, bookId, t) ==
    LET i == findIndex(books, bookId)
    IN IF i # 0
       THEN [write |-> TRUE,
             books |-> [books EXCEPT ![i] =
                 [k \in DOMAIN books[i] \cup {"lastCheckedOutDate"} |->
                     IF k = "isCheckedOut" THEN ~books[i].isCheckedOut
                     ELSE IF k = "lastCheckedOutDate"
                          THEN IF ~books[i].isCheckedOut
                               THEN Date(t) ELSE Undefined
                     ELSE books[i][k]]]]
       ELSE [write |-> FALSE, books |-> books]

\* Variant: removing a book also checks it in
InactivatedCheckedIn(books, bookId) ==
    LET i == findIndex(books, bookId)
    IN IF i # 0
       THEN [write |-> TRUE,
             books |-> [books EXCEPT ![i].isActive = FALSE,
                                     ![i].isCheckedOut = FALSE,
                                     ![i].lastCheckedOutDate = Undefined]]
       ELSE [write |-> FALSE, books |-> books]

\* Variant: writeBooksToFile is called outside the if
InactivatedAlwaysWriting(books, bookId) ==
    LET i == findIndex(books, bookId)
    IN IF i # 0
       THEN [write |-> TRUE, books |-> [books EXCEPT ![i].isActive = FALSE]]
       ELSE [write |-> TRUE, books |-> books]

\* markBookInactive
Inactivated(books, bookId) ==
    LET i == findIndex(books, bookId)
    IN IF i # 0
       THEN [write |-> TRUE, books |-> [books EXCEPT ![i].isActive = FALSE]]
       ELSE [write |-> FALSE, books |-> books]

\* updateBookCondition
Reconditioned(books, bookId, condition) ==
    LET i == findIndex(books, bookId)
    IN IF i # 0
       THEN [write |-> TRUE,
             books |-> [books EXCEPT ![i].condition = condition]]
       ELSE [write |-> FALSE, books |-> books]

---------------------------------------------------------------------------
(* Calls *)

Idle == [st |-> "idle"]

\* The activation record of a call: its arguments, the array it loaded and
\* the array as its body left it; at is the clock when its body ran
Call(op, bookId, data, loaded, books, read) ==
    [op |-> op, bookId |-> bookId, data |-> data, at |-> now,
     loaded |-> loaded, books |-> books, read |-> read]

NoEvent == [kind |-> "none", fs |-> "none"]

Deliver(kind, call, value, fs) ==
    ev' = [kind |-> kind, call |-> call, value |-> value, fs |-> fs]

ReadOutcome(readOk) == IF readOk THEN "readOk" ELSE "readFailed"
WriteOutcome(writeOk) == IF writeOk THEN "writeOk" ELSE "writeFailed"

IdOps == {"updateBook", "toggleCheckoutStatus", "markBookInactive",
          "updateBookCondition"}

\* The ids addBook can assign within MaxCalls calls
Ids == {toString(n) : n \in 1..MaxCalls}

\* The step of a query in which its read completes: r is the result of
\* readBooksFromFile (an exception it threw would pass through the await)
Query(c, op, bookId, r, result, readOk) ==
    /\ pc[c] = Idle
    /\ calls < MaxCalls
    /\ calls' = calls + 1
    /\ IF r.threw
       THEN Deliver("throw", Call(op, bookId, Undefined, r.books, r.books,
                         ReadOutcome(readOk)),
                    r.error, ReadOutcome(readOk))
       ELSE Deliver("return", Call(op, bookId, Undefined, r.books, r.books,
                         ReadOutcome(readOk)),
                    result, ReadOutcome(readOk))
    /\ UNCHANGED <<file, now, pc, toggles, adds>>

\* The step of a mutation in which its read completes: m is what its body
\* made of the loaded array.  The body runs up to writeBooksToFile and
\* suspends there, or returns without writing.
Mutation(c, op, bookId, data, r, m, readOk) ==
    /\ pc[c] = Idle
    /\ calls < MaxCalls
    /\ calls' = calls + 1
    /\ IF r.threw
       THEN /\ Deliver("throw", Call(op, bookId, data, r.books, r.books,
                         ReadOutcome(readOk)),
                       r.error, ReadOutcome(readOk))
            /\ pc' = pc
       ELSE IF m.write
       THEN /\ Deliver("none", Call(op, bookId, data, r.books, m.books,
                         ReadOutcome(readOk)),
                       Undefined, ReadOutcome(readOk))
            /\ pc' = [pc EXCEPT ![c] =
                        [st |-> "writing",
                         call |-> Call(op, bookId, data, r.books, m.books,
                         ReadOutcome(readOk))]]
       ELSE /\ Deliver("return", Call(op, bookId, data, r.books, m.books,
                         ReadOutcome(readOk)),
                       Undefined, ReadOutcome(readOk))
            /\ pc' = pc
    /\ UNCHANGED <<file, now, toggles, adds>>

getBooks(c) ==
    \E readOk \in BOOLEAN :
        LET r == readBooksFromFile(file, readOk)
        IN Query(c, "getBooks", "", r, r.books, readOk)

getBook(c, id) ==
    \E readOk \in BOOLEAN :
        LET r == readBooksFromFile(file, readOk)
        IN Query(c, "getBook", id, r, find(r.books, id), readOk)

getActiveBooks(c) ==
    \E readOk \in BOOLEAN :
        LET r == readBooksFromFile(file, readOk)
        IN Query(c, "getActiveBooks", "", r, filterActive(r.books), readOk)

addBook(c, data) ==
    \E readOk \in BOOLEAN :
        LET r == readBooksFromFile(file, readOk)
        IN Mutation(c, "addBook", "", data, r, Added(r.books, data, now), readOk)

updateBook(c, bookId, data) ==
    \E readOk \in BOOLEAN :
        LET r == readBooksFromFile(file, readOk)
        IN Mutation(c, "updateBook", bookId, data, r,
                    Updated(r.books, bookId, data), readOk)

toggleCheckoutStatus(c, bookId) ==
    \E readOk \in BOOLEAN :
        LET r == readBooksFromFile(file, readOk)
        IN Mutation(c, "toggleCheckoutStatus", bookId, Undefined, r,
                    Toggled(r.books, bookId, now), readOk)

markBookInactive(c, bookId) ==
    \E readOk \in BOOLEAN :
        LET r == readBooksFromFile(file, readOk)
        IN Mutation(c, "markBookInactive", bookId, Undefined, r,
                    Inactivated(r.books, bookId), readOk)

updateBookCondition(c, bookId, condition) ==
    \E readOk \in BOOLEAN :
        LET r == readBooksFromFile(file, readOk)
        IN Mutation(c, "updateBookCondition", bookId,
                    [condition |-> condition], r,
                    Reconditioned(r.books, bookId, condition), readOk)

\* The history of check-outs and check-ins after the call's write
Recorded(call) ==
    IF call.op = "addBook"
    THEN [toggles EXCEPT ![call.books[Len(call.books)].id] = 0]
    ELSE IF call.op = "toggleCheckoutStatus"
    THEN [toggles EXCEPT ![call.bookId] = @ + 1]
    ELSE toggles

\* The step in which the write of a suspended mutation completes: the
\* function returns (after revalidatePath), or the error thrown by
\* writeBooksToFile passes through its await to the caller
WriteCompletes(c) ==
    /\ pc[c] # Idle
    /\ \E writeOk \in BOOLEAN :
        LET call == pc[c].call
            w == writeBooksToFile(call.books, writeOk, file)
        IN /\ file' = w.file
           /\ IF w.threw
              THEN /\ Deliver("throw", call, w.error, WriteOutcome(writeOk))
                   /\ toggles' = toggles
                   /\ adds' = adds
              ELSE /\ Deliver("return", call, Undefined,
                              WriteOutcome(writeOk))
                   /\ toggles' = IF writeOk THEN Recorded(call) ELSE toggles
                   /\ adds' = IF call.op = "addBook" THEN adds + 1 ELSE adds
    /\ pc' = [pc EXCEPT ![c] = Idle]
    /\ UNCHANGED <<now, calls>>

\* Time passes (the layer starts at some time of day 0, here its last tick)
Tick ==
    /\ now < MaxNow
    /\ now' = now + 1
    /\ ev' = NoEvent
    /\ UNCHANGED <<file, pc, calls, toggles, adds>>

---------------------------------------------------------------------------
(* Specifications *)

Init ==
    /\ file = <<>>
    /\ now = TicksPerDay - 1
    /\ pc = [c \in Callers |-> Idle]
    /\ ev = NoEvent
    /\ calls = 0
    /\ toggles = [id \in Ids |-> 0]
    /\ adds = 0

Step(c) ==
    \/ getBooks(c)
    \/ \E id \in IdInputs : getBook(c, id)
    \/ getActiveBooks(c)
    \/ \E data \in DataInputs : addBook(c, data)
    \/ \E id \in IdInputs, data \in DataInputs : updateBook(c, id, data)
    \/ \E id \in IdInputs : toggleCheckoutStatus(c, id)
    \/ \E id \in IdInputs : markBookInactive(c, id)
    \/ \E id \in IdInputs, condition \in CondInputs :
          updateBookCondition(c, id, condition)
    \/ WriteCompletes(c)

\* Any number of callers, no mutual exclusion
Next == Tick \/ \E c \in Callers : Step(c)

Spec == Init /\ [][Next]_vars

\* Calls that do not overlap: a caller runs only while every other is idle
SeqNext ==
    \/ Tick
    \/ \E c \in Callers :
          /\ \A d \in Callers \ {c} : pc[d] = Idle
          /\ Step(c)

SeqSpec == Init /\ [][SeqNext]_vars

---------------------------------------------------------------------------
(* Properties *)

\* The ids of the serialized records of f
IdsIn(f) == {f[i].id : i \in 1..Len(f)}

\* A step delivered the return of a call of op
Returned(op) == ev'.kind = "return" /\ ev'.call.op = op

\* Fields of a record that updateBook preserves
KeptFields == {"id", "isCheckedOut", "isActive", "addedDate",
               "lastCheckedOutDate"}

\* C1: in the state in which addBook(data) returns, getBook of the id it
\* assigned finds, in the store, a record with the seven fields of data,
\* isCheckedOut false, isActive true, no lastCheckedOutDate, and addedDate
\* the day of the call.
C1_AddThenGetById ==
    (ev.kind = "return" /\ ev.call.op = "addBook") =>
        LET call == ev.call
            id == call.books[Len(call.books)].id
            got == find(loadAll(file), id)
        IN /\ got # Undefined
           /\ got.id = id
           /\ \A k \in DataFields : got[k] = call.data[k]
           /\ got.isCheckedOut = FALSE
           /\ got.isActive = TRUE
           /\ got.lastCheckedOutDate = Undefined
           /\ got.addedDate = parseDate(call.at \div TicksPerDay)

\* addBook(Emma) returned on a store that held Dune, called off midnight
C1_Witness ==
    /\ ev.kind = "return"
    /\ ev.call.op = "addBook"
    /\ ev.call.data = Emma
    /\ ev.call.at % TicksPerDay # 0
    /\ Len(file) = 2
    /\ file[1].title = "Dune"
    /\ file[2].title = "Emma"

\* C2: in every reachable state of the store, under any interleaving of the
\* callers, no two records have the same id.
C2_UniqueIds ==
    \A i, j \in 1..Len(file) : i # j => file[i].id # file[j].id

\* Two records in the store while an addBook that loaded fewer is suspended
C2_Witness ==
    /\ Len(file) >= 2
    /\ \E c \in Callers :
          /\ pc[c] # Idle
          /\ pc[c].call.op = "addBook"
          /\ Len(pc[c].call.loaded) < Len(file)

\* C3: once a record with a given id is in the store, a record with that
\* id is in the store in every later state.
C3_NeverHardDeleted ==
    [][\A id \in IdsIn(file) : id \in IdsIn(file')]_vars

\* C4: once a record is inactive, in every later state getBook still
\* returns it with isActive false and getActiveBooks does not contain it.
C4_InactiveForever ==
    [][\A id \in IdsIn(file) :
          LET before == find(loadAll(file), id)
              after == find(loadAll(file'), id)
              active == filterActive(loadAll(file'))
          IN ~before.isActive =>
                /\ after # Undefined
                /\ ~after.isActive
                /\ \A j \in 1..Len(active) : active[j].id # id]_vars

\* A complete, successful toggleCheckoutStatus(id) at time t on the store f
toggleCheckout(f, id, t) ==
    writeBooksToFile(Toggled(loadAll(f), id, t).books, TRUE, f).file

C6_NotFoundNoOp ==
    [][(/\ ev'.kind \in {"return", "throw"}
        /\ ev'.call.op \in IdOps
        /\ findIndex(ev'.call.loaded, ev'.call.bookId) = 0) =>
          /\ ev'.kind = "return"
          /\ ev'.fs \in {"readOk", "readFailed"}
          /\ file' = file
          /\ loadAll(file') = loadAll(file)]_vars

\* markBookInactive("2") returned on a store that holds only record "1"
C6_Witness ==
    /\ ev.kind = "return"
    /\ ev.call.op = "markBookInactive"
    /\ ev.call.bookId = "2"
    /\ ev.fs = "readOk"
    /\ Len(ev.call.loaded) = 1
    /\ Len(file) = 1

\* C7: in the state in which updateBook(id, data) returns for a record it
\* found, the record in the store has the seven fields of data and the id,
\* isCheckedOut, isActive, addedDate and lastCheckedOutDate it had when
\* loaded; every other record and the order are as loaded.
C7_UpdateFrame ==
    (/\ ev.kind = "return"
     /\ ev.call.op = "updateBook"
     /\ findIndex(ev.call.loaded, ev.call.bookId) # 0) =>
        LET call == ev.call
            before == call.loaded
            after == loadAll(file)
            i == findIndex(before, call.bookId)
        IN /\ Len(after) = Len(before)
           /\ \A j \in 1..Len(before) : j # i => after[j] = before[j]
           /\ \A k \in DataFields : after[i][k] = call.data[k]
           /\ \A k \in KeptFields : after[i][k] = before[i][k]
           /\ DOMAIN after[i] = DataFields \cup KeptFields

\* updateBook("1", Emma) returned for the checked-out record Dune
C7_Witness ==
    /\ ev.kind = "return"
    /\ ev.call.op = "updateBook"
    /\ ev.call.data = Emma
    /\ Len(ev.call.loaded) >= 1
    /\ ev.call.loaded[1].title = "Dune"
    /\ ev.call.loaded[1].isCheckedOut
    /\ file[1].title = "Emma"
    /\ file[1].isCheckedOut

\* C8: loading the store, saving what was loaded and loading again gives
\* the first load, record by record and in order; a record with no
\* lastCheckedOutDate is saved without that key.
C8_RoundTrip ==
    LET first == loadAll(file)
        saved == writeBooksToFile(first, TRUE, file).file
        second == loadAll(saved)
    IN /\ second = first
       /\ \A i \in 1..Len(first) :
             ("lastCheckedOutDate" \in DOMAIN saved[i]) <=>
                 (first[i].lastCheckedOutDate # Undefined)

\* A store of two records, one with and one without lastCheckedOutDate
C8_Witness ==
    /\ Len(file) = 2
    /\ "lastCheckedOutDate" \in DOMAIN file[1]
    /\ "lastCheckedOutDate" \notin DOMAIN file[2]

\* C9: a step in which fs.writeFile fails delivers to the caller the error
\* "Failed to save books"; it never delivers a return.
C9_WriteFailureRaised ==
    ev.fs = "writeFailed" =>
        /\ ev.kind = "throw"
        /\ ev.value = [message |-> "Failed to save books"]

\* The write of a markBookInactive that found its record failed
C9_Witness ==
    /\ ev.fs = "writeFailed"
    /\ ev.call.op = "markBookInactive"
    /\ findIndex(ev.call.loaded, ev.call.bookId) # 0

\* C10: a step in which the read fails throws nothing and loads the empty
\* array: getBooks and getActiveBooks return it, getBook returns undefined;
\* and nothing but a failed write is ever thrown.
C10_ReadFailureAbsorbed ==
    /\ ev.fs = "readFailed" =>
          /\ ev.kind # "throw"
          /\ ev.call.loaded = <<>>
          /\ ev.call.op \in {"getBooks", "getActiveBooks"} =>
                (ev.kind = "return" /\ ev.value = <<>>)
          /\ ev.call.op = "getBook" =>
                (ev.kind = "return" /\ ev.value = Undefined)
    /\ ev.kind = "throw" => ev.fs = "writeFailed"

\* getBooks returned the empty array from a store that holds a record
C10_Witness ==
    /\ ev.fs = "readFailed"
    /\ ev.call.op = "getBooks"
    /\ ev.kind = "return"
    /\ ev.value = <<>>
    /\ Len(file) >= 1

\* C11: in the state in which a write succeeded, the call returns without
\* error and the store is exactly the array that call built from its own
\* load: whatever another caller saved since that load is gone, the records
\* the call did not touch being as the call loaded them.
C11_LastSaveWins ==
    ev.fs = "writeOk" =>
        LET call == ev.call
            i == findIndex(call.loaded, call.bookId)
        IN /\ ev.kind = "return"
           /\ file = [j \in 1..Len(call.books) |-> serializeBook(call.books[j])]
           /\ Len(file) = IF call.op = "addBook" THEN Len(call.loaded) + 1
                          ELSE Len(call.loaded)
           /\ \A j \in 1..Len(call.loaded) :
                 j # i => loadAll(file)[j] = call.loaded[j]

\* Two toggles of record "1" both loaded it checked in; both writes
\* completed and the record is checked out
C11_Witness ==
    /\ ev.fs = "writeOk"
    /\ ev.kind = "return"
    /\ ev.call.op = "toggleCheckoutStatus"
    /\ ev.call.bookId = "1"
    /\ toggles["1"] = 2
    /\ Len(file) = 1
    /\ file[1].isCheckedOut
    /\ ~ev.call.loaded[1].isCheckedOut

\* The id addBook gave and the place it put the record: the number of
\* records loaded plus one, as a numeral, at the end of the array
AddRule ==
    (ev.kind = "return" /\ ev.call.op = "addBook") =>
        /\ Len(file) = Len(ev.call.loaded) + 1
        /\ file[Len(file)].id = toString(Len(ev.call.loaded) + 1)
        /\ \A j \in 1..Len(ev.call.loaded) :
              loadAll(file)[j] = ev.call.loaded[j]

\* C12: addBook gives the new record the id (records loaded + 1) as a
\* numeral and appends it; from the empty store the k-th addBook that
\* returns gives the id k.
C12_KthAddGetsIdK ==
    /\ AddRule
    /\ (ev.kind = "return" /\ ev.call.op = "addBook") =>
          file[Len(file)].id = toString(adds)

\* C13: in the state in which markBookInactive(id) or
\* updateBookCondition(id, c) returns for a record it found, the store is
\* the array the call loaded with one field of that record changed:
\* isActive to false, respectively condition to c.
C13_OneFieldChanged ==
    (/\ ev.kind = "return"
     /\ ev.call.op \in {"markBookInactive", "updateBookCondition"}
     /\ findIndex(ev.call.loaded, ev.call.bookId) # 0) =>
        LET call == ev.call
            before == call.loaded
            after == loadAll(file)
            i == findIndex(before, call.bookId)
            field == IF call.op = "markBookInactive"
                     THEN "isActive" ELSE "condition"
        IN /\ Len(after) = Len(before)
           /\ \A j \in 1..Len(before) : j # i => after[j] = before[j]
           /\ DOMAIN after[i] = DOMAIN before[i]
           /\ \A k \in DOMAIN before[i] \ {field} : after[i][k] = before[i][k]
           /\ call.op = "markBookInactive" => after[i].isActive = FALSE
           /\ call.op = "updateBookCondition" =>
                 after[i].condition = call.data.condition

\* markBookInactive("1") returned for a checked-out record: it is inactive
\* and still checked out, with its date
C13_Witness ==
    /\ ev.kind = "return"
    /\ ev.call.op = "markBookInactive"
    /\ ev.call.bookId = "1"
    /\ Len(ev.call.loaded) = 1
    /\ ev.call.loaded[1].isCheckedOut
    /\ ev.call.loaded[1].isActive
    /\ ~file[1].isActive
    /\ file[1].isCheckedOut
    /\ "lastCheckedOutDate" \in DOMAIN file[1]

\* C14: a record's id and addedDate are fixed at creation: in every step,
\* each position of the store that still exists holds the same id and the
\* same addedDate (a day) as before the step.
C14_IdAndAddedDateFixed ==
    [][\A i \in 1..Len(file) :
          i <= Len(file') =>
              /\ file'[i].id = file[i].id
              /\ file'[i].addedDate = file[i].addedDate]_vars

\* C15: a record of the store without lastCheckedOutDate is a record that
\* no toggleCheckoutStatus has written since it was added (the first toggle
\* of a record is the one that sets isCheckedOut to true).
C15_AbsentMeansNeverCheckedOut ==
    \A i \in 1..Len(file) :
        "lastCheckedOutDate" \notin DOMAIN file[i] =>
            toggles[file[i].id] = 0

\* The collection a query works on: the records of the store f when its
\* load succeeds, none when it fails (C10)
Collection(f, fs) == IF fs = "readOk" THEN loadAll(f) ELSE <<>>

\* C16: a step in which getActiveBooks returns leaves the store unchanged
\* and delivers exactly the records of the collection whose isActive is
\* true, in collection order: the k-th delivered record is the k-th active
\* one.  A step in which getBooks returns leaves the store unchanged and
\* delivers every record of the collection in order, inactive ones included.
C16_Listings ==
    [][(/\ ev'.kind \in {"return", "throw"}
        /\ ev'.call.op \in {"getBooks", "getActiveBooks"}) =>
          LET all == Collection(file, ev'.fs)
              active == {i \in 1..Len(all) : all[i].isActive = TRUE}
              nth(k) == CHOOSE i \in active :
                           Cardinality({j \in active : j <= i}) = k
          IN /\ ev'.kind = "return"
             /\ file' = file
             /\ ev'.call.op = "getBooks" => ev'.value = all
             /\ ev'.call.op = "getActiveBooks" =>
                   /\ Len(ev'.value) = Cardinality(active)
                   /\ \A k \in 1..Len(ev'.value) : ev'.value[k] = all[nth(k)]
      ]_vars

\* getActiveBooks loaded the store, whose only record is inactive, and
\* returned no record
C16_Witness ==
    /\ ev.kind = "return"
    /\ ev.call.op = "getActiveBooks"
    /\ ev.fs = "readOk"
    /\ Len(file) = 1
    /\ ~file[1].isActive
    /\ ev.value = <<>>

\* C17: a step in which getBook(id) returns leaves the store unchanged and
\* delivers the first record of the collection whose id is id, active or
\* not, and undefined exactly when no record of the collection has that id.
C17_GetById ==
    [][(/\ ev'.kind \in {"return", "throw"}
        /\ ev'.call.op = "getBook") =>
          LET all == Collection(file, ev'.fs)
              id == ev'.call.bookId
              hits == {i \in 1..Len(all) : all[i].id = id}
          IN /\ ev'.kind = "return"
             /\ file' = file
             /\ (ev'.value = Undefined) <=> (hits = {})
             /\ hits # {} =>
                   \E i \in hits : /\ \A j \in hits : i <= j
                                   /\ ev'.value = all[i]
      ]_vars

\* getBook("1") returned the record "1" of the store, which is inactive
C17_Witness ==
    /\ ev.kind = "return"
    /\ ev.call.op = "getBook"
    /\ ev.call.bookId = "1"
    /\ ev.fs = "readOk"
    /\ ev.value # Undefined
    /\ ev.value.id = "1"
    /\ ~ev.value.isActive

C19_ReadFailureInMutations ==
    /\ (ev.fs = "readFailed" /\ ev.call.op \in IdOps) =>
          /\ ev.kind = "return"
          /\ ev.call.loaded = <<>>
          /\ ev.call.books = <<>>
    /\ \A c \in Callers :
          pc[c] # Idle =>
              ~(pc[c].call.read = "readFailed" /\ pc[c].call.op \in IdOps)
    /\ ev.fs \in {"writeOk", "writeFailed"} =>
          ~(ev.call.read = "readFailed" /\ ev.call.op \in IdOps)
    /\ (ev.fs = "readFailed" /\ ev.call.op = "addBook") =>
          /\ ev.kind = "none"
          /\ \E c \in Callers : pc[c] # Idle /\ pc[c].call = ev.call
          /\ Len(ev.call.books) = 1
          /\ ev.call.books[1].id = "1"
    /\ (/\ ev.fs = "writeOk"
        /\ ev.call.op = "addBook"
        /\ ev.call.read = "readFailed") =>
          /\ ev.kind = "return"
          /\ Len(file) = 1
          /\ file[1].id = "1"
          /\ \A k \in DataFields : file[1][k] = ev.call.data[k]

\* The second addBook to return is one whose load failed: the store, which
\* held a record, holds the new record alone
C19_Witness ==
    /\ ev.fs = "writeOk"
    /\ ev.call.op = "addBook"
    /\ ev.call.read = "readFailed"
    /\ ev.call.data.title = "Emma"
    /\ adds = 2
    /\ Len(file) = 1
    /\ file[1].title = "Emma"

====
